---- MODULE Spec2Model ----
(***************************************************************************)
(* Model of sjtu::vector<T> (src/src/vector.hpp).                          *)
(*                                                                         *)
(* Two container objects live in the model: object 1 is default            *)
(* constructed at start, object 2 is constructed (default or copy) and     *)
(* destroyed by the caller.  Raw buffers are heap blocks named by an id;   *)
(* a slot of a block either holds a live T (a value) or no object (NoObj); *)
(* a slot used against the lifetime of its object is marked Bad for good.  *)
(* A pointer is a pair (buffer, offset); nullptr is (Null, 0).             *)
(***************************************************************************)
EXTENDS Integers, Sequences, FiniteSets, TLC

\* ---- bounds ----
MaxSize == 3      \* object 1 is grown only while size_ < MaxSize
MaxSize2 == 2     \* the same limit for object 2
MaxVal  == 2      \* element values are 1..MaxVal
MaxBufs == 3      \* heap blocks that can be allocated at the same time

Vecs   == {1, 2}
Values == 1..MaxVal
BufIds == 1..MaxBufs
Null   == 0       \* the buffer id of nullptr
NoObj  == 0       \* a slot without a live object
Ext    == -1      \* "buffer" of an object that lives outside every container
Bad    == -2      \* a slot constructed, destroyed or assigned out of turn
Indices == 0..MaxSize
Limit(c) == IF c = 1 THEN MaxSize ELSE MaxSize2

VARIABLES
  data_,      \* data_ of each object: the id of its block, or Null
  size_,      \* size_ of each object
  capacity_,  \* capacity_ of each object
  alive,      \* whether the object is constructed and not yet destroyed
  heap,       \* the slots of each block
  allocated,  \* the blocks ::operator new returned and nobody deleted yet
  last,       \* the last call: operation, arguments, object before, result
  pushLog     \* per object: the values push_back-ed since vector()

vars == <<data_, size_, capacity_, alive, heap, allocated, last, pushLog>>

\* ---- pointers, references and raw memory ----
Ptr(b, o) == [buf |-> b, off |-> o]
NullPtr == Ptr(Null, 0)
PtrAdd(p, n) == Ptr(p.buf, p.off + n)
\* p - q is the slot distance inside one block (and 0 for nullptr - nullptr)
PtrDiff(p, q) == p.off - q.off

\* a const T& argument: an object of the caller, or a slot of a heap block
ExtRef(v) == Ptr(Ext, v)
NoSlots == [i \in {} |-> NoObj]
RawBlock(n) == [i \in 0..(n - 1) |-> NoObj]
\* what is left of a block that was released twice
Zombie == [i \in {0} |-> Bad]

\* new (p + i) T(x): the slot has to be raw memory and x an object's value
Construct(slots, i, x) ==
  [slots EXCEPT ![i] = IF @ = NoObj /\ x \in Values THEN x ELSE Bad]
\* p[i].~T(): the slot has to hold an object
Destroy(slots, i) == [slots EXCEPT ![i] = IF @ \in Values THEN NoObj ELSE Bad]
\* p[i] = x: the slot has to hold an object and x be an object's value
Assign(slots, i, x) ==
  [slots EXCEPT ![i] = IF @ \in Values /\ x \in Values THEN x ELSE Bad]

\* whether a read through ref reaches no live object
Dangling(h, al, ref) ==
  /\ ref.buf # Ext
  /\ ~(ref.buf \in al /\ ref.off \in DOMAIN h[ref.buf] /\ h[ref.buf][ref.off] \in Values)

\* the values a read through ref can produce: the live object's value, or
\* anything when the slot holds no live object or its block was released
DerefSet(h, al, ref) ==
  IF ref.buf = Ext THEN {ref.off}
  ELSE IF Dangling(h, al, ref) THEN Values ELSE {h[ref.buf][ref.off]}

FreeBufs == BufIds \ allocated

\* ::operator new(n * sizeof(T)) returning block nb
OperatorNew(h, nb, n) == [h EXCEPT ![nb] = RawBlock(n)]
\* ::operator delete(d); deleting nullptr does nothing. The objects still
\* alive in the block are never destroyed and stay behind; a block released
\* before becomes Zombie
OperatorDelete(h, d) ==
  IF d = Null THEN h
  ELSE IF h[d] = NoSlots THEN [h EXCEPT ![d] = Zombie]
  ELSE IF \E i \in DOMAIN h[d] : h[d][i] # NoObj THEN h
  ELSE [h EXCEPT ![d] = NoSlots]
AllocNew(al, nb) == al \cup {nb}
AllocDelete(al, d) == al \ {d}

\* for (i = 0; i < n; ++i) new (dst + off + i) T(src[from + i])
RECURSIVE CopyConstruct(_, _, _, _, _, _)
CopyConstruct(dst, src, i, n, from, off) ==
  IF i < n
  THEN CopyConstruct(Construct(dst, off + i, src[from + i]), src, i + 1, n, from, off)
  ELSE dst

\* for (i = 0; i < n; ++i) p[i].~T()
RECURSIVE DestroyAll(_, _, _)
DestroyAll(slots, i, n) ==
  IF i < n THEN DestroyAll(Destroy(slots, i), i + 1, n) ELSE slots

Slots(c) == IF data_[c] = Null THEN NoSlots ELSE heap[data_[c]]

\* the observable element sequence: at(0), ..., at(size-1)
Elems(c) == [i \in 1..size_[c] |-> Slots(c)[i - 1]]

\* everything one container object owns
View(c) == [data |-> data_[c], size |-> size_[c], capacity |-> capacity_[c],
            slots |-> Slots(c)]
NoView == [data |-> Null, size |-> 0, capacity |-> 0, slots |-> NoSlots]
ViewElems(w) == [i \in 1..w.size |-> w.slots[i - 1]]

\* ---- cursors ----
iterator(ptr, vec) == [ptr |-> ptr, vec |-> vec]
NoCursor == iterator(NullPtr, 0)
begin(c) == iterator(Ptr(data_[c], 0), c)
end(c) == iterator(Ptr(data_[c], size_[c]), c)
iterator_plus(it, n) == iterator(PtrAdd(it.ptr, n), it.vec)
iterator_deref(it) == heap[it.ptr.buf][it.ptr.off]

\* a - b of iterator: the error raised and the possible results; the
\* difference of pointers into two different blocks is undefined
PtrDiffSet(p, q) == IF p.buf = q.buf THEN {PtrDiff(p, q)} ELSE (0 - MaxSize)..MaxSize
\* the origin test made on the positions' blocks
iterator_minus_byblock(a, b) ==
  IF a.ptr.buf # b.ptr.buf THEN [err |-> "invalid_iterator", outs |-> {0}]
  ELSE [err |-> "none", outs |-> PtrDiffSet(a.ptr, b.ptr)]
iterator_minus(a, b) ==
  IF a.vec # b.vec THEN [err |-> "invalid_iterator", outs |-> {0}]
  ELSE [err |-> "none", outs |-> PtrDiffSet(a.ptr, b.ptr)]
\* the same of const_iterator
const_iterator_minus(a, b) ==
  IF a.vec # b.vec THEN [err |-> "invalid_iterator", outs |-> {0}]
  ELSE [err |-> "none", outs |-> PtrDiffSet(a.ptr, b.ptr)]

\* an equality that also asks for the same origin
iterator_eq_sameorigin(a, b) == a.ptr = b.ptr /\ a.vec = b.vec
\* a == b and a != b of iterator, the right side of either kind
iterator_eq(a, b) == a.ptr = b.ptr
iterator_ne(a, b) == a.ptr # b.ptr
\* the same of const_iterator
const_iterator_eq(a, b) == a.ptr = b.ptr
const_iterator_ne(a, b) == a.ptr # b.ptr

\* ---- the record of the last call ----
NoUndo == [on |-> FALSE, elems |-> <<>>]
Call(op, c, ind, val, err, pre, ret, out, arg) ==
  [op |-> op, c |-> c, ind |-> ind, val |-> val, err |-> err, pre |-> pre,
   ret |-> ret, out |-> out, arg |-> arg, undo |-> NoUndo, ub |-> FALSE,
   kinds |-> <<>>, pos |-> NoCursor]
NoErr == "none"

\* whether call (op, c) with argument x comes right after the successful call
\* it undoes: erase(i) after insert(i, v), push_back(v) after a pop_back that
\* removed v; then with the elements as they were before that first call
Undoes(op, c, x) ==
  IF /\ last.err = NoErr /\ last.c = c
     /\ \/ op = "erase" /\ last.op = "insert" /\ last.ind = x
        \/ /\ op = "push_back" /\ last.op = "pop_back"
           /\ last.pre.slots[last.pre.size - 1] = x
  THEN [on |-> TRUE, elems |-> ViewElems(last.pre)]
  ELSE NoUndo

\* the values push_back-ed into a container that was default constructed and
\* has seen no other mutation since (pure), for the push_back sequence law
FreshLog == [pure |-> TRUE, log |-> <<>>]
StaleLog == [pure |-> FALSE, log |-> <<>>]

\* growth by one slot instead of doubling
NewCapacity_plus1(cap) == cap + 1
NewCapacity(cap) == IF cap = 0 THEN 1 ELSE cap * 2

Init ==
  /\ data_ = [c \in Vecs |-> Null]
  /\ size_ = [c \in Vecs |-> 0]
  /\ capacity_ = [c \in Vecs |-> 0]
  /\ alive = [c \in Vecs |-> c = 1]
  /\ heap = [b \in BufIds |-> NoSlots]
  /\ allocated = {}
  /\ last = Call("vector", 1, 0, 0, NoErr, NoView, NoCursor, 0, NoCursor)
  /\ pushLog = [c \in Vecs |-> FreshLog]

\* ---- storage manager ----
Block(h, d) == IF d = Null THEN NoSlots ELSE h[d]
HeapCopy(h, nb, d, n) ==
  IF n = 0 THEN h ELSE [h EXCEPT ![nb] = CopyConstruct(h[nb], Block(h, d), 0, n, 0, 0)]
HeapDestroy(h, d, n) ==
  IF n = 0 THEN h ELSE [h EXCEPT ![d] = DestroyAll(h[d], 0, n)]

\* reallocate with the copy loop stopping one element early
reallocate_short(h, d, sz, nb, new_capacity) ==
  LET h1 == OperatorNew(h, nb, new_capacity)
      h2 == HeapCopy(h1, nb, d, IF sz > 0 THEN sz - 1 ELSE 0)
      h3 == HeapDestroy(h2, d, sz)
  IN OperatorDelete(h3, d)

\* reallocate that releases the old block without destroying its elements
reallocate_nodestroy(h, d, sz, nb, new_capacity) ==
  LET h1 == OperatorNew(h, nb, new_capacity)
      h2 == HeapCopy(h1, nb, d, sz)
  IN OperatorDelete(h2, d)

\* reallocate(new_capacity) of a container with buffer d and sz live
\* elements, the new block being nb: the heap it leaves
reallocate(h, d, sz, nb, new_capacity) ==
  LET h1 == OperatorNew(h, nb, new_capacity)
      h2 == HeapCopy(h1, nb, d, sz)
      h3 == HeapDestroy(h2, d, sz)
  IN OperatorDelete(h3, d)

\* ---- construction, destruction, assignment ----
\* the heap after "if (other.size_ > 0) { allocate; copy-construct }"
CloneInto(h, nb, od, osz) ==
  IF osz > 0 THEN HeapCopy(OperatorNew(h, nb, osz), nb, od, osz) ELSE h

vector_default(c) ==
  /\ ~alive[c]
  /\ alive' = [alive EXCEPT ![c] = TRUE]
  /\ data_' = [data_ EXCEPT ![c] = Null]
  /\ size_' = [size_ EXCEPT ![c] = 0]
  /\ capacity_' = [capacity_ EXCEPT ![c] = 0]
  /\ last' = Call("vector", c, 0, 0, NoErr, NoView, NoCursor, 0, NoCursor)
  /\ pushLog' = [pushLog EXCEPT ![c] = FreshLog]
  /\ UNCHANGED <<heap, allocated>>

\* a copy constructor that reserves the source's capacity
vector_copy_samecap(c, other) ==
  /\ ~alive[c] /\ alive[other] /\ size_[other] <= Limit(c)
  /\ \E nb \in (IF size_[other] > 0 THEN FreeBufs ELSE {Null}) :
       /\ heap' = IF size_[other] > 0
                  THEN HeapCopy(OperatorNew(heap, nb, capacity_[other]), nb,
                                data_[other], size_[other])
                  ELSE heap
       /\ allocated' = IF size_[other] > 0 THEN AllocNew(allocated, nb) ELSE allocated
       /\ data_' = [data_ EXCEPT ![c] = nb]
       /\ capacity_' = [capacity_ EXCEPT ![c] = IF size_[other] > 0 THEN capacity_[other] ELSE 0]
       /\ size_' = [size_ EXCEPT ![c] = size_[other]]
  /\ alive' = [alive EXCEPT ![c] = TRUE]
  /\ last' = Call("vector_copy", c, other, 0, NoErr, View(other), NoCursor, 0, NoCursor)
  /\ pushLog' = [pushLog EXCEPT ![c] = StaleLog]

\* a copy constructor that takes over the source's pointer
vector_copy_shallow(c, other) ==
  /\ ~alive[c] /\ alive[other] /\ size_[other] <= Limit(c)
  /\ data_' = [data_ EXCEPT ![c] = data_[other]]
  /\ capacity_' = [capacity_ EXCEPT ![c] = size_[other]]
  /\ size_' = [size_ EXCEPT ![c] = size_[other]]
  /\ alive' = [alive EXCEPT ![c] = TRUE]
  /\ last' = Call("vector_copy", c, other, 0, NoErr, View(other), NoCursor, 0, NoCursor)
  /\ pushLog' = [pushLog EXCEPT ![c] = StaleLog]
  /\ UNCHANGED <<heap, allocated>>

vector_copy(c, other) ==
  /\ ~alive[c] /\ alive[other] /\ size_[other] <= Limit(c)
  /\ \E nb \in (IF size_[other] > 0 THEN FreeBufs ELSE {Null}) :
       /\ heap' = CloneInto(heap, nb, data_[other], size_[other])
       /\ allocated' = IF size_[other] > 0 THEN AllocNew(allocated, nb) ELSE allocated
       /\ data_' = [data_ EXCEPT ![c] = nb]
       /\ capacity_' = [capacity_ EXCEPT ![c] = IF size_[other] > 0 THEN size_[other] ELSE 0]
       /\ size_' = [size_ EXCEPT ![c] = IF size_[other] > 0 THEN size_[other] ELSE 0]
  /\ alive' = [alive EXCEPT ![c] = TRUE]
  /\ last' = Call("vector_copy", c, other, 0, NoErr, View(other), NoCursor, 0, NoCursor)
  /\ pushLog' = [pushLog EXCEPT ![c] = StaleLog]

\* ~vector(); the fields of the dead object are cleared, nothing reads them
vector_dtor(c) ==
  /\ alive[c]
  /\ heap' = OperatorDelete(HeapDestroy(heap, data_[c], size_[c]), data_[c])
  /\ allocated' = AllocDelete(allocated, data_[c])
  /\ alive' = [alive EXCEPT ![c] = FALSE]
  /\ data_' = [data_ EXCEPT ![c] = Null]
  /\ size_' = [size_ EXCEPT ![c] = 0]
  /\ capacity_' = [capacity_ EXCEPT ![c] = 0]
  /\ last' = Call("vector_dtor", c, 0, 0, NoErr, View(c), NoCursor, 0, NoCursor)
  /\ pushLog' = [pushLog EXCEPT ![c] = StaleLog]

\* operator= without the test this == &other
OperatorAssign_noselfcheck(c, other) ==
  /\ alive[c] /\ alive[other] /\ size_[other] <= Limit(c)
  /\ LET h1 == OperatorDelete(HeapDestroy(heap, data_[c], size_[c]), data_[c])
         al1 == AllocDelete(allocated, data_[c])
         osz == IF c = other THEN 0 ELSE size_[other]
     IN \E nb \in (IF osz > 0 THEN BufIds \ al1 ELSE {Null}) :
          /\ heap' = CloneInto(h1, nb, data_[other], osz)
          /\ allocated' = IF osz > 0 THEN AllocNew(al1, nb) ELSE al1
          /\ data_' = [data_ EXCEPT ![c] = nb]
          /\ capacity_' = [capacity_ EXCEPT ![c] = osz]
          /\ size_' = [size_ EXCEPT ![c] = osz]
  /\ last' = Call("operator=", c, other, size_[c], NoErr, View(other), NoCursor, 0,
                  begin(c))
  /\ pushLog' = [pushLog EXCEPT ![c] = StaleLog]
  /\ UNCHANGED alive

\* operator=(other); "other" is recorded in last.ind, the source as it was
\* in last.pre, and begin() and size() of the target, taken before the call,
\* in last.arg and last.val
OperatorAssign(c, other) ==
  /\ alive[c] /\ alive[other] /\ size_[other] <= Limit(c)
  /\ IF c = other
     THEN UNCHANGED <<data_, size_, capacity_, heap, allocated>>
     ELSE LET h1 == OperatorDelete(HeapDestroy(heap, data_[c], size_[c]), data_[c])
              al1 == AllocDelete(allocated, data_[c])
          IN \E nb \in (IF size_[other] > 0 THEN BufIds \ al1 ELSE {Null}) :
               /\ heap' = CloneInto(h1, nb, data_[other], size_[other])
               /\ allocated' = IF size_[other] > 0 THEN AllocNew(al1, nb) ELSE al1
               /\ data_' = [data_ EXCEPT ![c] = nb]
               /\ capacity_' = [capacity_ EXCEPT ![c] = IF size_[other] > 0 THEN size_[other] ELSE 0]
               /\ size_' = [size_ EXCEPT ![c] = IF size_[other] > 0 THEN size_[other] ELSE 0]
  /\ last' = Call("operator=", c, other, size_[c], NoErr, View(other), NoCursor, 0,
                  begin(c))
  /\ pushLog' = [pushLog EXCEPT ![c] = StaleLog]
  /\ UNCHANGED alive

\* ---- the checks that precede every access ----
\* the emptiness test taken as size_ <= 1
IsEmpty_one(sz) == sz <= 1

\* pos >= size_ of at and operator[]
AtOutOfBound(pos, sz) == pos >= sz
\* size_ == 0 of front, back and pop_back
IsEmpty(sz) == sz = 0

\* ---- push_back / pop_back ----
\* a growth test that always asks for a new block
NeedsGrow_always(sz, cap) == TRUE
\* size_ >= capacity_ of push_back and insert
NeedsGrow(sz, cap) == sz >= cap
ValueAtCall(ref) == CHOOSE x \in DerefSet(heap, allocated, ref) : TRUE

push_back(c, value) ==
  /\ alive[c] /\ size_[c] < Limit(c)
  /\ LET grow == NeedsGrow(size_[c], capacity_[c])
         new_capacity == NewCapacity(capacity_[c])
     IN \E nb \in (IF grow THEN FreeBufs ELSE {Null}) :
          LET h1 == IF grow THEN reallocate(heap, data_[c], size_[c], nb, new_capacity)
                            ELSE heap
              al1 == IF grow THEN AllocDelete(AllocNew(allocated, nb), data_[c])
                             ELSE allocated
              d1 == IF grow THEN nb ELSE data_[c]
          IN \E x \in DerefSet(h1, al1, value) :
               /\ heap' = [h1 EXCEPT ![d1] = Construct(@, size_[c], x)]
               /\ allocated' = al1
               /\ data_' = [data_ EXCEPT ![c] = d1]
               /\ capacity_' = [capacity_ EXCEPT ![c] = IF grow THEN new_capacity ELSE @]
               /\ size_' = [size_ EXCEPT ![c] = @ + 1]
               /\ last' = [Call("push_back", c, size_[c], ValueAtCall(value), NoErr,
                                View(c), NoCursor, 0, iterator(value, 0))
                            EXCEPT !.undo = Undoes("push_back", c, ValueAtCall(value)),
                                   !.ub = Dangling(h1, al1, value)]
  /\ pushLog' = [pushLog EXCEPT ![c] =
                   IF @.pure THEN [pure |-> TRUE, log |-> Append(@.log, ValueAtCall(value))]
                   ELSE @]
  /\ UNCHANGED alive

\* pop_back that destroys the last element and keeps size_
pop_back_keepsize(c) ==
  /\ alive[c]
  /\ IF IsEmpty(size_[c])
     THEN /\ last' = Call("pop_back", c, 0, 0, "container_is_empty", View(c),
                          NoCursor, 0, NoCursor)
          /\ UNCHANGED <<heap, pushLog>>
     ELSE /\ heap' = [heap EXCEPT ![data_[c]] = Destroy(@, size_[c] - 1)]
          /\ last' = Call("pop_back", c, 0, 0, NoErr, View(c), NoCursor, 0, NoCursor)
          /\ pushLog' = [pushLog EXCEPT ![c] = StaleLog]
  /\ UNCHANGED <<data_, size_, capacity_, allocated, alive>>

pop_back(c) ==
  /\ alive[c]
  /\ IF IsEmpty(size_[c])
     THEN /\ last' = Call("pop_back", c, 0, 0, "container_is_empty", View(c),
                          NoCursor, 0, NoCursor)
          /\ UNCHANGED <<data_, size_, capacity_, heap, allocated, pushLog>>
     ELSE /\ heap' = [heap EXCEPT ![data_[c]] = Destroy(@, size_[c] - 1)]
          /\ size_' = [size_ EXCEPT ![c] = @ - 1]
          /\ last' = Call("pop_back", c, 0, 0, NoErr, View(c), NoCursor, 0, NoCursor)
          /\ pushLog' = [pushLog EXCEPT ![c] = StaleLog]
          /\ UNCHANGED <<data_, capacity_, allocated>>
  /\ UNCHANGED alive

\* ---- element access ----
\* at(pos) and operator[](pos), read: the element is returned in last.out
at(c, pos) ==
  /\ alive[c]
  /\ IF AtOutOfBound(pos, size_[c])
     THEN last' = Call("at", c, pos, 0, "index_out_of_bound", View(c), NoCursor, 0, NoCursor)
     ELSE last' = Call("at", c, pos, 0, NoErr, View(c), NoCursor,
                       heap[data_[c]][pos], NoCursor)
  /\ UNCHANGED <<data_, size_, capacity_, alive, heap, allocated, pushLog>>

Subscript(c, pos) ==
  /\ alive[c]
  /\ IF AtOutOfBound(pos, size_[c])
     THEN last' = Call("operator[]", c, pos, 0, "index_out_of_bound", View(c),
                       NoCursor, 0, NoCursor)
     ELSE last' = Call("operator[]", c, pos, 0, NoErr, View(c), NoCursor,
                       heap[data_[c]][pos], NoCursor)
  /\ UNCHANGED <<data_, size_, capacity_, alive, heap, allocated, pushLog>>

\* at(pos) = v: a write through the reference at(pos) returned; when at
\* throws there is no write, which is at(c, pos) itself
WriteAt(c, pos, v) ==
  /\ alive[c] /\ pos < size_[c]
  /\ last' = Call("at=", c, pos, v, NoErr, View(c), NoCursor, 0, NoCursor)
  /\ heap' = [heap EXCEPT ![data_[c]] = Assign(@, pos, v)]
  /\ pushLog' = [pushLog EXCEPT ![c] = StaleLog]
  /\ UNCHANGED <<data_, size_, capacity_, alive, allocated>>

\* *(begin() + k) = v, for a cursor at a live element (k < size)
WriteIt(c, k, v) ==
  /\ alive[c] /\ k < size_[c]
  /\ LET it == iterator_plus(begin(c), k)
     IN /\ heap' = [heap EXCEPT ![it.ptr.buf] = Assign(@, it.ptr.off, v)]
        /\ last' = Call("*it=", c, k, v, NoErr, View(c), it, 0, NoCursor)
  /\ pushLog' = [pushLog EXCEPT ![c] = StaleLog]
  /\ UNCHANGED <<data_, size_, capacity_, alive, allocated>>

front(c) ==
  /\ alive[c]
  /\ IF IsEmpty(size_[c])
     THEN last' = Call("front", c, 0, 0, "container_is_empty", View(c), NoCursor, 0, NoCursor)
     ELSE last' = Call("front", c, 0, 0, NoErr, View(c), NoCursor,
                       heap[data_[c]][0], NoCursor)
  /\ UNCHANGED <<data_, size_, capacity_, alive, heap, allocated, pushLog>>

back(c) ==
  /\ alive[c]
  /\ IF IsEmpty(size_[c])
     THEN last' = Call("back", c, 0, 0, "container_is_empty", View(c), NoCursor, 0, NoCursor)
     ELSE last' = Call("back", c, 0, 0, NoErr, View(c), NoCursor,
                       heap[data_[c]][size_[c] - 1], NoCursor)
  /\ UNCHANGED <<data_, size_, capacity_, alive, heap, allocated, pushLog>>

\* clear that resets size_ and destroys nothing
clear_nodestroy(c) ==
  /\ alive[c]
  /\ size_' = [size_ EXCEPT ![c] = 0]
  /\ last' = Call("clear", c, 0, 0, NoErr, View(c), NoCursor, 0, NoCursor)
  /\ pushLog' = [pushLog EXCEPT ![c] = StaleLog]
  /\ UNCHANGED <<data_, capacity_, alive, allocated, heap>>

\* clear that also releases the buffer
clear_release(c) ==
  /\ alive[c]
  /\ heap' = OperatorDelete(HeapDestroy(heap, data_[c], size_[c]), data_[c])
  /\ allocated' = AllocDelete(allocated, data_[c])
  /\ data_' = [data_ EXCEPT ![c] = Null]
  /\ size_' = [size_ EXCEPT ![c] = 0]
  /\ capacity_' = [capacity_ EXCEPT ![c] = 0]
  /\ last' = Call("clear", c, 0, 0, NoErr, View(c), NoCursor, 0, NoCursor)
  /\ pushLog' = [pushLog EXCEPT ![c] = StaleLog]
  /\ UNCHANGED alive

clear(c) ==
  /\ alive[c]
  /\ heap' = HeapDestroy(heap, data_[c], size_[c])
  /\ size_' = [size_ EXCEPT ![c] = 0]
  /\ last' = Call("clear", c, 0, 0, NoErr, View(c), NoCursor, 0, NoCursor)
  /\ pushLog' = [pushLog EXCEPT ![c] = StaleLog]
  /\ UNCHANGED <<data_, capacity_, alive, allocated>>

\* ---- insert / erase ----
\* the bound of insert taken as the bound of erase
InsertOutOfBound_strict(ind, sz) == ind >= sz
InsertOutOfBound(ind, sz) == ind > sz
EraseOutOfBound(ind, sz) == ind >= sz

\* the shift of insert run upwards, for (i = ind + 1; i <= size_; ++i)
RECURSIVE ShiftUpwards(_, _, _)
ShiftUpwards(slots, i, sz) ==
  IF i <= sz THEN ShiftUpwards([slots EXCEPT ![i] = slots[i - 1]], i + 1, sz) ELSE slots
ShiftRight_upwards(slots, i, ind) == ShiftUpwards(slots, ind + 1, i)

\* for (i = size_; i > ind; --i) data_[i] = data_[i - 1]
RECURSIVE ShiftRight(_, _, _)
ShiftRight(slots, i, ind) ==
  IF i > ind THEN ShiftRight(Assign(slots, i, slots[i - 1]), i - 1, ind) ELSE slots

\* the shift of erase stopping one element early, i < size_ - 2
RECURSIVE ShiftLeft_short(_, _, _)
ShiftLeft_short(slots, i, sz) ==
  IF i < sz - 2 THEN ShiftLeft_short([slots EXCEPT ![i] = slots[i + 1]], i + 1, sz)
  ELSE slots

\* for (i = ind; i < size_ - 1; ++i) data_[i] = data_[i + 1]
RECURSIVE ShiftLeft(_, _, _)
ShiftLeft(slots, i, sz) ==
  IF i < sz - 1 THEN ShiftLeft(Assign(slots, i, slots[i + 1]), i + 1, sz) ELSE slots

\* the reallocating branch of insert, up to the construction of the new
\* element (which reads value): copies of [0, ind) in place
InsertGrowHead(h, d, nb, new_capacity, ind) ==
  LET h1 == OperatorNew(h, nb, new_capacity)
  IN IF ind = 0 THEN h1
     ELSE [h1 EXCEPT ![nb] = CopyConstruct(h1[nb], Block(h1, d), 0, ind, 0, 0)]

\* the rest of the branch without the copy of [ind, sz)
InsertGrowTail_notail(h, d, sz, nb, ind, x) ==
  LET h1 == [h EXCEPT ![nb][ind] = x]
      h3 == HeapDestroy(h1, d, sz)
  IN OperatorDelete(h3, d)

\* the rest of the branch: x constructed at ind, [ind, sz) copied one slot to
\* the right, the old elements destroyed and the old block released
InsertGrowTail(h, d, sz, nb, ind, x) ==
  LET h1 == [h EXCEPT ![nb] = Construct(@, ind, x)]
      h2 == IF sz - ind = 0 THEN h1
            ELSE [h1 EXCEPT ![nb] = CopyConstruct(h1[nb], Block(h1, d), 0, sz - ind, ind, ind + 1)]
      h3 == HeapDestroy(h2, d, sz)
  IN OperatorDelete(h3, d)

\* insert(ind, value), reached as overload op (the index one, or the cursor
\* one with the cursor pos it was given)
InsertCall(op, pos, c, ind, value) ==
  /\ alive[c] /\ size_[c] < Limit(c)
  /\ IF InsertOutOfBound(ind, size_[c])
     THEN /\ last' = [Call(op, c, ind, ValueAtCall(value), "index_out_of_bound",
                           View(c), NoCursor, 0, iterator(value, 0))
                       EXCEPT !.pos = pos]
          /\ UNCHANGED <<data_, size_, capacity_, heap, allocated, pushLog>>
     ELSE /\ IF NeedsGrow(size_[c], capacity_[c])
             THEN LET new_capacity == NewCapacity(capacity_[c])
                  IN \E nb \in FreeBufs :
                       LET h1 == InsertGrowHead(heap, data_[c], nb, new_capacity, ind)
                       IN \E x \in DerefSet(h1, AllocNew(allocated, nb), value) :
                            /\ heap' = InsertGrowTail(h1, data_[c], size_[c], nb, ind, x)
                            /\ allocated' = AllocDelete(AllocNew(allocated, nb), data_[c])
                            /\ data_' = [data_ EXCEPT ![c] = nb]
                            /\ capacity_' = [capacity_ EXCEPT ![c] = new_capacity]
                            /\ last' = [Call(op, c, ind, ValueAtCall(value), NoErr,
                                             View(c), iterator(Ptr(nb, ind), c), 0,
                                             iterator(value, 0))
                                         EXCEPT !.ub = Dangling(h1, AllocNew(allocated, nb),
                                                                value),
                                                !.pos = pos]
             ELSE \E x1 \in DerefSet(heap, allocated, value) :
                    LET d == data_[c]
                        h1 == [heap EXCEPT ![d] = Construct(@, size_[c], x1)]
                        h2 == [h1 EXCEPT ![d] = ShiftRight(h1[d], size_[c], ind)]
                    IN \E x2 \in DerefSet(h2, allocated, value) :
                         /\ heap' = [h2 EXCEPT ![d] = Assign(@, ind, x2)]
                         /\ last' = [Call(op, c, ind, ValueAtCall(value), NoErr,
                                          View(c), iterator(Ptr(d, ind), c), 0,
                                          iterator(value, 0))
                                      EXCEPT !.ub = \/ Dangling(heap, allocated, value)
                                                    \/ Dangling(h2, allocated, value),
                                             !.pos = pos]
                         /\ UNCHANGED <<data_, capacity_, allocated>>
          /\ size_' = [size_ EXCEPT ![c] = @ + 1]
          /\ pushLog' = [pushLog EXCEPT ![c] = StaleLog]
  /\ UNCHANGED alive

\* the slot distance pos.ptr_ - data_ taken one too far
IndexOf_next(c, pos) == {d + 1 : d \in PtrDiffSet(pos.ptr, Ptr(data_[c], 0))}
\* size_t index = pos.ptr_ - data_; the cursors handed in stand in the block
\* of data_ (or both are nullptr), so the difference is never negative
IndexOf(c, pos) == PtrDiffSet(pos.ptr, Ptr(data_[c], 0))

\* insert(const size_t &ind, const T &value)
insert(c, ind, value) == InsertCall("insert", NoCursor, c, ind, value)
\* insert(iterator pos, const T &value)
insert_it(c, pos, value) ==
  \E index \in IndexOf(c, pos) : InsertCall("insert_it", pos, c, index, value)

\* erase(ind), reached as overload op
EraseCall(op, pos, c, ind) ==
  /\ alive[c]
  /\ IF EraseOutOfBound(ind, size_[c])
     THEN /\ last' = [Call(op, c, ind, 0, "index_out_of_bound", View(c),
                           NoCursor, 0, NoCursor)
                       EXCEPT !.undo = Undoes("erase", c, ind), !.pos = pos]
          /\ UNCHANGED <<size_, heap, pushLog>>
     ELSE LET d == data_[c]
              shifted == ShiftLeft(heap[d], ind, size_[c])
          IN /\ heap' = [heap EXCEPT ![d] = Destroy(shifted, size_[c] - 1)]
             /\ size_' = [size_ EXCEPT ![c] = @ - 1]
             /\ last' = [Call(op, c, ind, 0, NoErr, View(c),
                              iterator(Ptr(d, ind), c), 0, NoCursor)
                          EXCEPT !.undo = Undoes("erase", c, ind), !.pos = pos]
             /\ pushLog' = [pushLog EXCEPT ![c] = StaleLog]
  /\ UNCHANGED <<data_, capacity_, alive, allocated>>

\* erase(const size_t &ind)
erase(c, ind) == EraseCall("erase", NoCursor, c, ind)
\* erase(iterator pos)
erase_it(c, pos) == \E index \in IndexOf(c, pos) : EraseCall("erase_it", pos, c, index)

\* (begin() + ka) - (begin() + kb) of two containers' cursors; kind says
\* whether both are iterators or both const_iterators (cbegin()); the call
\* record has ka in ind, kb in val, the cursors in ret and arg
CursorDiff(kind, ca, ka, cb, kb) ==
  /\ alive[ca] /\ alive[cb] /\ ka <= size_[ca] /\ kb <= size_[cb]
  /\ LET a == iterator_plus(begin(ca), ka)
         b == iterator_plus(begin(cb), kb)
         r == IF kind = "iterator" THEN iterator_minus(a, b) ELSE const_iterator_minus(a, b)
     IN \E out \in r.outs :
          last' = Call(kind, ca, ka, kb, r.err, View(ca), a, out, b)
  /\ UNCHANGED <<data_, size_, capacity_, alive, heap, allocated, pushLog>>

CursorKinds == {"iterator", "const_iterator"}

\* (begin() + ka) rel (begin() + kb) for rel one of == and !=, the left
\* cursor of kind lk and the right one of kind rk; the call record has rel in
\* op, the kinds in kinds, ka in ind, kb in val, the cursors in ret and arg
\* and the result (1 for true) in out
Relations == {"==", "!="}
CursorCompare(rel, lk, rk, ca, ka, cb, kb) ==
  /\ alive[ca] /\ alive[cb] /\ ka <= size_[ca] /\ kb <= size_[cb]
  /\ LET a == iterator_plus(begin(ca), ka)
         b == iterator_plus(begin(cb), kb)
         r == CASE rel = "==" /\ lk = "iterator" -> iterator_eq(a, b)
                [] rel = "!=" /\ lk = "iterator" -> iterator_ne(a, b)
                [] rel = "==" /\ lk = "const_iterator" -> const_iterator_eq(a, b)
                [] rel = "!=" /\ lk = "const_iterator" -> const_iterator_ne(a, b)
     IN last' = [Call(rel, ca, ka, kb, NoErr, View(ca), a, IF r THEN 1 ELSE 0, b)
                 EXCEPT !.kinds = <<lk, rk>>]
  /\ UNCHANGED <<data_, size_, capacity_, alive, heap, allocated, pushLog>>

\* a program that uses two vectors: it builds, copies, assigns and destroys
\* them and changes their elements
Next ==
  \/ \E c \in Vecs, v \in Values : push_back(c, ExtRef(v))
  \/ \E c \in Vecs : pop_back(c)
  \/ \E c \in Vecs, ind \in Indices, v \in Values : insert(c, ind, ExtRef(v))
  \/ \E c \in Vecs, ind \in Indices : erase(c, ind)
  \/ \E c \in Vecs : clear(c)
  \/ \E c \in Vecs, pos \in Indices, v \in Values : WriteAt(c, pos, v)
  \/ \E c \in Vecs, k \in Indices, v \in Values : WriteIt(c, k, v)
  \/ \E c \in Vecs : front(c)
  \/ \E c \in Vecs : back(c)
  \/ vector_default(2)
  \/ vector_copy(2, 1)
  \/ vector_dtor(2)
  \/ \E c \in Vecs, other \in Vecs : OperatorAssign(c, other)

Spec == Init /\ [][Next]_vars

\* a program that fills two vectors with one value and subtracts their cursors
NextCursor ==
  \/ \E c \in Vecs : push_back(c, ExtRef(1))
  \/ \E c \in Vecs : pop_back(c)
  \/ vector_default(2)
  \/ vector_copy(2, 1)
  \/ vector_dtor(2)
  \/ \E kind \in CursorKinds, ca \in Vecs, cb \in Vecs, ka \in Indices, kb \in Indices :
       CursorDiff(kind, ca, ka, cb, kb)

SpecCursor == Init /\ [][NextCursor]_vars

\* a program that compares the cursors of two vectors, one comparison
\* after each change
NextCompare ==
  \/ \E c \in Vecs : push_back(c, ExtRef(1))
  \/ \E c \in Vecs : pop_back(c)
  \/ vector_default(2)
  \/ vector_copy(2, 1)
  \/ vector_dtor(2)
  \/ /\ last.op \notin Relations
     /\ \E rel \in Relations, lk \in CursorKinds, rk \in CursorKinds,
           ca \in Vecs, cb \in Vecs, ka \in Indices, kb \in Indices :
          CursorCompare(rel, lk, rk, ca, ka, cb, kb)

SpecCompare == Init /\ [][NextCompare]_vars

\* a program that uses one vector, object 1
NextOne ==
  \/ \E v \in Values : push_back(1, ExtRef(v))
  \/ pop_back(1)
  \/ \E ind \in Indices, v \in Values : insert(1, ind, ExtRef(v))
  \/ \E ind \in Indices : erase(1, ind)
  \/ clear(1)
  \/ \E pos \in Indices : at(1, pos)
  \/ \E pos \in Indices : Subscript(1, pos)
  \/ \E pos \in Indices, v \in Values : WriteAt(1, pos, v)
  \/ \E k \in Indices, v \in Values : WriteIt(1, k, v)
  \/ front(1)
  \/ back(1)
  \/ OperatorAssign(1, 1)
  \/ \E kind \in CursorKinds, ka \in Indices, kb \in Indices : CursorDiff(kind, 1, ka, 1, kb)

SpecOne == Init /\ [][NextOne]_vars

\* a program that passes elements of the vector to its own push_back and
\* insert: v.push_back(v[k]), v.insert(ind, v[k])
ElementRef(c, k) == Ptr(data_[c], k)
NextAlias ==
  \/ \E v \in Values : push_back(1, ExtRef(v))
  \/ pop_back(1)
  \/ \E ind \in Indices : erase(1, ind)
  \/ \E k \in Indices : k < size_[1] /\ push_back(1, ElementRef(1, k))
  \/ \E ind \in Indices, k \in Indices :
       k < size_[1] /\ insert(1, ind, ElementRef(1, k))

SpecAlias == Init /\ [][NextAlias]_vars

\* a program that inserts and erases at the cursors begin() + k of one vector
NextIt ==
  \/ \E v \in Values : push_back(1, ExtRef(v))
  \/ pop_back(1)
  \/ clear(1)
  \/ \E k \in Indices, v \in Values :
       k <= size_[1] /\ insert_it(1, iterator_plus(begin(1), k), ExtRef(v))
  \/ \E k \in Indices : k <= size_[1] /\ erase_it(1, iterator_plus(begin(1), k))

SpecIt == Init /\ [][NextIt]_vars

\* ---- the laws of the operations ----
OutOfBound == "index_out_of_bound"
Empty == "container_is_empty"
Incompatible == "invalid_iterator"

\* s with v put in front of its element number ind (counted from 0)
InsertSeq(s, ind, v) == SubSeq(s, 1, ind) \o <<v>> \o SubSeq(s, ind + 1, Len(s))
\* s without its element number ind
EraseSeq(s, ind) == SubSeq(s, 1, ind) \o SubSeq(s, ind + 2, Len(s))
\* the elements of the container the last call was made on, before that call
PreElems == ViewElems(last.pre)
Done(op) == last.op = op /\ last.err = NoErr

\* C1: a default-constructed container that has only seen push_back calls, N
\* of them, has size N and holds at index i the value of the i-th call.
C1_PushBackSequence ==
  \A c \in Vecs :
    (alive[c] /\ pushLog[c].pure) =>
      /\ size_[c] = Len(pushLog[c].log)
      /\ \A i \in 0..(Len(pushLog[c].log) - 1) :
           /\ ~AtOutOfBound(i, size_[c])
           /\ heap[data_[c]][i] = pushLog[c].log[i + 1]

\* three push_back calls of different values, two of them after the first
\* reallocation
C1_Witness ==
  /\ Done("push_back") /\ pushLog[1].pure
  /\ pushLog[1].log = <<1, 2, 1>> /\ capacity_[1] = 4

\* C2: insert(index, v) with index <= size and v not an element of the
\* container raises no error, puts v in front of the old element index and
\* keeps the rest in order, adds one to size, and returns the cursor of slot
\* index of the current buffer with this container as origin.
C2_Insert ==
  last.op = "insert" =>
    /\ last.ind <= last.pre.size => last.err = NoErr
    /\ last.err = NoErr =>
         /\ Elems(last.c) = InsertSeq(PreElems, last.ind, last.val)
         /\ size_[last.c] = last.pre.size + 1
         /\ last.ret = iterator(Ptr(data_[last.c], last.ind), last.c)
         /\ last.ret = iterator_plus(begin(last.c), last.ind)
         /\ iterator_deref(last.ret) = last.val

\* an insert in the middle of three elements without reallocation
C2_Witness ==
  /\ Done("insert") /\ last.pre.size = 2 /\ last.pre.capacity = 4
  /\ last.ind = 1 /\ last.pre.data = data_[1]
  /\ Elems(1) = <<1, 2, 1>> /\ last.val = 2

\* an insert that reallocates, same law
C2_WitnessGrow ==
  /\ Done("insert") /\ last.pre.size = 2 /\ last.pre.capacity = 2
  /\ last.ind = 1 /\ last.pre.data # data_[1] /\ capacity_[1] = 4

\* C3: erase(index) with index < size raises no error, removes the element
\* index and keeps the others in order, takes one from size, and returns the
\* cursor of slot index, which is end() exactly when the last element went.
C3_Erase ==
  last.op = "erase" =>
    /\ last.ind < last.pre.size => last.err = NoErr
    /\ last.err = NoErr =>
         /\ Elems(last.c) = EraseSeq(PreElems, last.ind)
         /\ size_[last.c] = last.pre.size - 1
         /\ last.ret = iterator(Ptr(data_[last.c], last.ind), last.c)
         /\ (last.ret = end(last.c)) <=> (last.ind = last.pre.size - 1)

\* the first of three different-looking elements erased
C3_Witness ==
  /\ Done("erase") /\ last.ind = 0 /\ PreElems = <<1, 2, 1>>
  /\ last.ret # end(last.c)

\* C4: at and operator[] with index >= size, insert with index > size and
\* erase with index >= size raise index_out_of_bound, and only then; the
\* container is then as it was before the call.
C4_OutOfBound ==
  /\ last.op \in {"at", "operator[]", "erase"} =>
       (last.err = OutOfBound <=> last.ind >= last.pre.size)
  /\ last.op = "insert" => (last.err = OutOfBound <=> last.ind > last.pre.size)
  /\ (last.op \in {"at", "operator[]", "erase", "insert"} /\ last.err # NoErr) =>
       /\ last.err = OutOfBound
       /\ View(last.c) = last.pre

\* erase(size) on a container with elements and spare capacity
C4_Witness ==
  /\ last.op = "erase" /\ last.err = OutOfBound
  /\ last.ind = 2 /\ last.pre.size = 2 /\ last.pre.capacity = 4

\* C5: front, back and pop_back raise container_is_empty exactly when size
\* is 0 and then change nothing; otherwise front and back return the
\* elements 0 and size-1 and pop_back removes the last element only.
C5_Empty ==
  last.op \in {"front", "back", "pop_back"} =>
    /\ last.err = Empty <=> last.pre.size = 0
    /\ last.err # NoErr => (last.err = Empty /\ View(last.c) = last.pre)
    /\ Done("front") => (last.out = PreElems[1] /\ View(last.c) = last.pre)
    /\ Done("back") => (last.out = PreElems[last.pre.size] /\ View(last.c) = last.pre)
    /\ Done("pop_back") =>
         /\ Elems(last.c) = SubSeq(PreElems, 1, last.pre.size - 1)
         /\ size_[last.c] = last.pre.size - 1
         /\ data_[last.c] = last.pre.data
         /\ capacity_[last.c] = last.pre.capacity

\* pop_back on object 2 right after it was emptied, its buffer still there
C5_Witness ==
  /\ last.op = "pop_back" /\ last.err = Empty /\ last.c = 2
  /\ last.pre.capacity > 0

\* C6: a - b of two cursors of one kind is the slot of a minus the slot of b
\* when both come from the same container, so end() - begin() is size(), also
\* for a container that never allocated; it raises invalid_iterator when they
\* come from two containers; the container is left as it was.
C6_CursorDiff ==
  last.op \in CursorKinds =>
    LET a == last.ret
        b == last.arg
    IN /\ a.vec = b.vec => (last.err = NoErr /\ last.out = last.ind - last.val)
       /\ a.vec # b.vec => last.err = Incompatible
       /\ (a.vec = b.vec /\ a = end(a.vec) /\ b = begin(a.vec)) => last.out = size_[a.vec]
       /\ View(last.c) = last.pre

\* the cursors of two containers that never allocated: equal positions,
\* different origins
C6_Witness ==
  /\ last.op = "iterator" /\ last.err = Incompatible
  /\ last.ret.ptr = NullPtr /\ last.arg.ptr = NullPtr /\ last.ret.vec # last.arg.vec

\* cend() - cbegin() of a container with three elements
C6_WitnessSize ==
  /\ last.op = "const_iterator" /\ last.err = NoErr /\ last.out = 3
  /\ last.ret = end(1) /\ last.arg = begin(1)

\* C7: a copy (constructor or assignment from another object) has the
\* elements the source had, in a buffer of its own, and leaves the source as
\* it was; and a call that changes one object (push_back, insert, erase,
\* pop_back, clear, a write through at or a cursor) leaves the other object's
\* size, capacity, buffer and elements as they were.
Mutators == {"push_back", "insert", "erase", "pop_back", "clear", "at=", "*it="}
Other(c) == 3 - c
IsCopy == last.op \in {"vector_copy", "operator="} /\ last.ind # last.c
C7_Copied ==
  IsCopy =>
    /\ Elems(last.c) = PreElems
    /\ size_[last.c] = last.pre.size
    /\ View(last.ind) = last.pre
    /\ IF last.pre.size = 0 THEN data_[last.c] = Null
       ELSE /\ data_[last.c] \in allocated
            /\ data_[last.c] # data_[last.ind]
C7_DeepCopy ==
  [][/\ C7_Copied'
     /\ \A c \in Vecs :
          (last'.c = c /\ last'.op \in Mutators) => View(Other(c))' = View(Other(c))]_vars

\* object 2 copy-constructed from an object with two elements and spare
\* capacity
C7_Witness ==
  /\ Done("vector_copy") /\ last.c = 2 /\ capacity_[1] = 4
  /\ Elems(1) = <<1, 2>> /\ Elems(2) = <<1, 2>> /\ data_[1] # data_[2]

\* an insert into object 2 that reallocates while object 1 holds the same
\* elements object 2 had
C7_WitnessMutate ==
  /\ Done("insert") /\ last.c = 2 /\ last.pre.capacity = 1 /\ capacity_[2] = 2
  /\ alive[1] /\ Elems(1) = PreElems /\ last.ind = 0

\* C8: between calls every live object has 0 <= size <= capacity, capacity 0
\* exactly when it has no buffer, a buffer of exactly capacity slots that it
\* alone owns, a live element in each of the slots [0, size) and none in the
\* slots [size, capacity).
C8_Invariant ==
  \A c \in Vecs :
    alive[c] =>
      /\ 0 <= size_[c] /\ size_[c] <= capacity_[c]
      /\ capacity_[c] = 0 <=> data_[c] = Null
      /\ data_[c] # Null =>
           /\ data_[c] \in allocated
           /\ DOMAIN heap[data_[c]] = 0..(capacity_[c] - 1)
           /\ \A i \in 0..(capacity_[c] - 1) :
                (i < size_[c]) <=> (heap[data_[c]][i] # NoObj)
           /\ \A d \in Vecs : (alive[d] /\ d # c) => data_[d] # data_[c]

\* a clear of three elements: three slots lose their object, capacity stays
C8_Witness ==
  /\ Done("clear") /\ last.pre.size = 3 /\ capacity_[1] = 4 /\ size_[1] = 0

\* C9: erase(i) right after a successful insert(i, v) on the same container
\* raises no error and leaves the elements and the size as they were before
\* the insert.
C9_RoundTrip ==
  (last.op = "erase" /\ last.undo.on) =>
    /\ last.err = NoErr
    /\ Elems(last.c) = last.undo.elems
    /\ size_[last.c] = Len(last.undo.elems)

\* insert(1, v) then erase(1) on <<1, 2>>
C9_Witness ==
  /\ last.op = "erase" /\ last.undo.on /\ last.ind = 1
  /\ last.undo.elems = <<1, 2>> /\ PreElems = <<1, 1, 2>>

\* C10: push_back of the value a pop_back just removed leaves the elements
\* and the size as they were before the pop_back.
C10_PopPush ==
  (last.op = "push_back" /\ last.undo.on) =>
    /\ last.err = NoErr
    /\ Elems(last.c) = last.undo.elems
    /\ size_[last.c] = Len(last.undo.elems)

\* pop_back then push_back(1) on <<1, 2, 1>>
C10_Witness ==
  /\ last.op = "push_back" /\ last.undo.on
  /\ last.undo.elems = <<1, 2, 1>> /\ last.val = 1

\* C11: a successful push_back or insert made with size == capacity leaves
\* capacity max(1, 2 * old capacity); made with size < capacity it leaves the
\* capacity and the buffer pointer as they were.
Max(a, b) == IF a >= b THEN a ELSE b
C11_Growth ==
  (last.op \in {"push_back", "insert"} /\ last.err = NoErr) =>
    IF last.pre.size = last.pre.capacity
    THEN capacity_[last.c] = Max(1, 2 * last.pre.capacity)
    ELSE /\ last.pre.size < last.pre.capacity
         /\ capacity_[last.c] = last.pre.capacity
         /\ data_[last.c] = last.pre.data

\* an insert into a full buffer of two slots
C11_Witness ==
  /\ Done("insert") /\ last.pre.size = 2 /\ last.pre.capacity = 2
  /\ capacity_[1] = 4 /\ last.ind = 0

\* a push_back into spare capacity
C11_WitnessSpare ==
  /\ Done("push_back") /\ last.pre.size = 2 /\ last.pre.capacity = 4
  /\ data_[1] = last.pre.data

\* C12: erase, pop_back and clear, failing or not, leave the capacity and
\* the buffer pointer as they were, and clear leaves size 0; push_back and
\* insert never lower the capacity.
C12_NoShrink ==
  /\ last.op \in {"erase", "pop_back", "clear"} =>
       /\ capacity_[last.c] = last.pre.capacity
       /\ data_[last.c] = last.pre.data
  /\ last.op = "clear" => size_[last.c] = 0
  /\ last.op \in {"push_back", "insert"} => capacity_[last.c] >= last.pre.capacity

\* the only element erased from a buffer of four slots
C12_Witness ==
  /\ Done("erase") /\ last.pre.size = 1 /\ size_[1] = 0
  /\ capacity_[1] = 4 /\ data_[1] # Null

\* C19: v = v leaves size, capacity, the buffer pointer and every slot as they
\* were; the buffer is still allocated and its elements are still alive.
C19_SelfAssign ==
  (last.op = "operator=" /\ last.ind = last.c) =>
    /\ last.err = NoErr
    /\ View(last.c) = last.pre
    /\ last.arg = begin(last.c)
    /\ data_[last.c] # Null => data_[last.c] \in allocated
    /\ \A i \in 0..(size_[last.c] - 1) : heap[data_[last.c]][i] # NoObj

\* v = v with two elements in a buffer of four slots
C19_Witness ==
  /\ last.op = "operator=" /\ last.ind = 1 /\ last.c = 1
  /\ Elems(1) = <<2, 1>> /\ capacity_[1] = 4

\* C18: a copy (constructor or assignment from another object) of a source
\* with n elements has capacity n, whatever the capacities of the source and
\* of the target were, and no buffer when n is 0; a push_back or insert that
\* comes right after the copy of a non-empty source reallocates, to
\* capacity 2n.
C18_Copied ==
  IsCopy =>
    /\ capacity_[last.c] = last.pre.size
    /\ size_[last.c] = last.pre.size
    /\ last.pre.size = 0 => (data_[last.c] = Null /\ capacity_[last.c] = 0)
    /\ last.pre.size > 0 => DOMAIN heap[data_[last.c]] = 0..(last.pre.size - 1)
C18_CopyCapacity ==
  [][/\ C18_Copied'
     /\ (/\ IsCopy /\ last.pre.size > 0
         /\ last'.op \in {"push_back", "insert"} /\ last'.c = last.c
         /\ last'.err = NoErr) =>
          /\ capacity_'[last.c] = 2 * last.pre.size
          /\ data_'[last.c] # data_[last.c]
          /\ data_[last.c] \notin allocated']_vars

\* object 2 copy-constructed from one element held in a buffer of two slots
C18_Witness ==
  /\ Done("vector_copy") /\ last.c = 2 /\ last.pre.size = 1
  /\ last.pre.capacity = 2 /\ capacity_[2] = 1 /\ capacity_[1] = 2

\* the push_back that follows the assignment of two elements to object 1
C18_WitnessPush ==
  /\ Done("push_back") /\ last.c = 1 /\ last.pre.size = 2
  /\ last.pre.capacity = 2 /\ capacity_[1] = 4 /\ ~pushLog[1].pure

\* C13: a == b of two cursors, of either kind on either side, is true
\* exactly when both stand at the same slot of the same block (or both are
\* nullptr), whichever containers they came from; a != b is true exactly
\* when a == b is not; so begin() == end() is true exactly on a container of
\* size 0. The comparison changes nothing.
SamePosition(ca, ka, cb, kb) == data_[ca] = data_[cb] /\ ka = kb
C13_Equality ==
  last.op \in Relations =>
    LET same == SamePosition(last.c, last.ind, last.arg.vec, last.val)
    IN /\ last.err = NoErr
       /\ last.op = "==" => (last.out = 1 <=> same)
       /\ last.op = "!=" => (last.out = 1 <=> ~same)
       /\ last.out \in {0, 1}
       /\ (/\ last.op = "==" /\ last.ret = begin(last.c)
           /\ last.arg = end(last.c)) => (last.out = 1 <=> size_[last.c] = 0)
       /\ View(last.c) = last.pre

\* an iterator of one container and a const_iterator of another, neither
\* container with a buffer: equal
C13_Witness ==
  /\ last.op = "==" /\ last.kinds = <<"iterator", "const_iterator">>
  /\ last.ret.vec = 1 /\ last.arg.vec = 2
  /\ last.ret.ptr = NullPtr /\ last.arg.ptr = NullPtr /\ last.out = 1

\* cbegin() != cend() on a container with two elements
C13_WitnessNe ==
  /\ last.op = "!=" /\ last.kinds = <<"const_iterator", "const_iterator">>
  /\ last.ret = begin(1) /\ last.arg = end(1) /\ size_[1] = 2 /\ last.out = 1

\* whether the value argument of the last call was an element of the
\* container the call was made on, and the value that element had
Aliased == last.arg.ptr.buf # Ext /\ last.arg.ptr.buf = last.pre.data
                                  /\ last.arg.ptr.off < last.pre.size
AliasedValue == last.pre.slots[last.arg.ptr.off]

\* C14: push_back(value) with value an element of the same container appends
\* a copy of the value that element had when the call began, also when the
\* call reallocates, and reads no destroyed element and no released block.
C14_AliasedPushBack ==
  (Done("push_back") /\ Aliased) =>
    /\ ~last.ub
    /\ size_[last.c] = last.pre.size + 1
    /\ Slots(last.c)[last.pre.size] = AliasedValue
    /\ Elems(last.c) = Append(PreElems, AliasedValue)

\* C15: insert(index, value) with value the element at k of the same
\* container, index <= size and k < size, leaves at index the value the
\* element at k had when the call began and keeps the other elements and
\* their order, on the reallocating and on the in-place path.
C15_AliasedInsert ==
  (last.op = "insert" /\ Aliased /\ last.ind <= last.pre.size) =>
    /\ last.err = NoErr
    /\ Slots(last.c)[last.ind] = AliasedValue
    /\ Elems(last.c) = InsertSeq(PreElems, last.ind, AliasedValue)

\* C16: between calls each live object holds no block when capacity is 0
\* and exactly one, its own, otherwise, and no other block is unreleased;
\* a released block holds no object and was released once; no slot was
\* constructed over an object, destroyed or assigned without one; the block
\* a push_back, insert or copy-assignment replaced is released (or, after
\* copy-assignment, handed out again as the new buffer); after ~vector()
\* the object's block is released and none of its elements is left.
Owners(b) == {c \in Vecs : alive[c] /\ data_[c] = b}
Released(b) == b \notin allocated /\ heap[b] = NoSlots
C16_ResourceBalance ==
  /\ \A c \in Vecs :
       alive[c] => /\ capacity_[c] = 0 => data_[c] = Null
                   /\ capacity_[c] > 0 => data_[c] \in allocated
  /\ \A b \in allocated : Cardinality(Owners(b)) = 1
  /\ \A b \in BufIds \ allocated : heap[b] = NoSlots
  /\ \A b \in BufIds : \A i \in DOMAIN heap[b] : heap[b][i] # Bad
  /\ \A c \in Vecs :
       (alive[c] /\ data_[c] # Null) =>
         Cardinality({i \in DOMAIN heap[data_[c]] : heap[data_[c]][i] # NoObj}) = size_[c]
  /\ (/\ last.op \in {"push_back", "insert"} /\ last.err = NoErr
      /\ last.pre.size = last.pre.capacity /\ last.pre.data # Null) =>
        Released(last.pre.data)
  /\ (last.op = "operator=" /\ last.ind # last.c /\ last.arg.ptr.buf # Null) =>
        (Released(last.arg.ptr.buf) \/ last.arg.ptr.buf = data_[last.c])
  /\ (last.op = "vector_dtor" /\ last.pre.data # Null) =>
        (Released(last.pre.data) /\ Owners(last.pre.data) = {})

\* an insert replaced the full buffer of object 1 while object 2 holds its own
C16_Witness ==
  /\ Done("insert") /\ last.c = 1 /\ last.pre.size = 2 /\ last.pre.capacity = 2
  /\ alive[2] /\ capacity_[2] = 2 /\ Cardinality(allocated) = 2
  /\ Released(last.pre.data)

\* object 2, holding two elements, was destroyed
C16_WitnessDtor ==
  /\ last.op = "vector_dtor" /\ last.pre.size = 2 /\ allocated = {data_[1]}
  /\ Released(last.pre.data)

\* object 1 dropped a buffer of four slots to take a copy of object 2
C16_WitnessAssign ==
  /\ last.op = "operator=" /\ last.c = 1 /\ last.ind = 2 /\ last.pre.size = 1
  /\ last.arg.ptr.buf # Null /\ Released(last.arg.ptr.buf)

\* the cursors begin() + k, k <= size, produced on the container of the last
\* call before that call
OldData == IF last.op = "operator=" THEN last.arg.ptr.buf ELSE last.pre.data
OldSize == IF last.op = "operator=" THEN last.val ELSE last.pre.size
OldCursors == {iterator(Ptr(OldData, k), last.c) : k \in 0..OldSize}
\* whether the cursor's position lies in the current buffer of its origin
InCurrentBuffer(it) ==
  /\ alive[it.vec] /\ it.ptr.buf = data_[it.vec]
  /\ it.ptr.off \in 0..capacity_[it.vec]
\* the calls that change the elements of one container
OnOne == {"push_back", "insert", "erase", "pop_back", "clear", "at=", "*it="}
Growing == /\ last.op \in {"push_back", "insert"} /\ last.err = NoErr
           /\ last.pre.size = last.pre.capacity
\* erase, pop_back, clear, writes, self-assignment and push_back/insert with
\* size < capacity keep the buffer: the old cursor at slot k is begin() + k
C17_Kept ==
  ((last.op \in OnOne /\ ~Growing) \/ (last.op = "operator=" /\ last.ind = last.c)) =>
    /\ data_[last.c] = OldData
    /\ \A it \in OldCursors :
         it = iterator_plus(begin(last.c), it.ptr.off) /\ InCurrentBuffer(it)
\* push_back/insert with size == capacity replace the buffer: every old
\* cursor is stale, its origin still the container
C17_GrowthStale ==
  Growing =>
    /\ data_[last.c] # OldData
    /\ \A it \in OldCursors : ~InCurrentBuffer(it) /\ it.vec = last.c /\ alive[it.vec]
\* copy-assignment from another container makes every old cursor stale
C17_AssignStale ==
  (last.op = "operator=" /\ last.ind # last.c) =>
    \A it \in OldCursors : ~InCurrentBuffer(it) /\ it.vec = last.c /\ alive[it.vec]
\* copy-assignment from another container gives the buffer up: an old cursor
\* lies in the current buffer only when the container had no buffer and has
\* none now (the source was empty), or when the block of the new buffer, of
\* as many slots as the source had elements, is the one just released
C17_AssignReleased ==
  (last.op = "operator=" /\ last.ind # last.c) =>
    /\ capacity_[last.c] = last.pre.size
    /\ data_[last.c] # data_[last.ind] \/ last.pre.size = 0
    /\ \A it \in OldCursors :
         /\ it.vec = last.c /\ alive[it.vec]
         /\ InCurrentBuffer(it) =>
              /\ it.ptr.off <= last.pre.size
              /\ OldData = Null <=> last.pre.size = 0

\* C17 as stated: a cursor produced at slot k keeps designating slot k of
\* the current buffer across erase, pop_back, clear, self-assignment and
\* push_back/insert made while size < capacity; push_back/insert made
\* when size == capacity and copy-assignment from a different container
\* replace the buffer and make every cursor produced before stale.
C17_AsStated == C17_Kept /\ C17_GrowthStale /\ C17_AssignStale

\* C17, amended: as above, except that after copy-assignment from a
\* different container an old cursor can still lie in the current buffer:
\* when there was no buffer and the source is empty, or when the new block
\* is the released one handed out again.
C17_CursorValidity == C17_Kept /\ C17_GrowthStale /\ C17_AssignReleased

\* object 1 held a buffer, took a copy of object 2, and its new buffer is the
\* block it released: the old begin() is the new begin()
C17_Witness ==
  /\ last.op = "operator=" /\ last.c = 1 /\ last.ind = 2 /\ last.pre.size = 2
  /\ OldData # Null /\ OldData = data_[1] /\ last.arg = begin(1)

\* an object without a buffer took a copy of an empty one
C17_WitnessNull ==
  /\ last.op = "operator=" /\ last.ind # last.c /\ OldData = Null
  /\ last.pre.size = 0 /\ last.pre.capacity > 0 /\ last.arg = begin(last.c)

\* copy-assignment that left the old cursors stale
C17_WitnessStale ==
  /\ last.op = "operator=" /\ last.ind # last.c /\ OldSize = 2
  /\ \A it \in OldCursors : ~InCurrentBuffer(it)

\* an insert into spare capacity: the old end() is now begin() + 2
C17_WitnessKept ==
  /\ Done("insert") /\ last.pre.size = 2 /\ last.pre.capacity = 4
  /\ iterator(Ptr(OldData, 2), 1) = iterator_plus(begin(1), 2) /\ size_[1] = 3

\* C20: insert(pos, v) with pos a cursor of the container at slot i,
\* 0 <= i <= size (end() and the begin() of a container that never allocated
\* included), does what insert(i, v) does: no error, v at index i with the
\* other elements in order, the growth of insert, a cursor at slot i of the
\* current buffer returned. erase(pos) does what erase(i) does: for i < size
\* the element at i is gone, the buffer kept and a cursor at slot i
\* returned; for pos == end() it raises index_out_of_bound and changes
\* nothing.
C20_CursorOverloads ==
  LET i == last.pos.ptr.off
  IN /\ last.op \in {"insert_it", "erase_it"} =>
          /\ last.pos = iterator(Ptr(last.pre.data, i), last.c)
          /\ last.ind = i
     /\ last.op = "insert_it" =>
          /\ last.err = NoErr
          /\ Elems(last.c) = InsertSeq(PreElems, i, last.val)
          /\ size_[last.c] = last.pre.size + 1
          /\ last.ret = iterator(Ptr(data_[last.c], i), last.c)
          /\ IF last.pre.size = last.pre.capacity
             THEN /\ capacity_[last.c] = Max(1, 2 * last.pre.capacity)
                  /\ data_[last.c] # last.pre.data
             ELSE /\ capacity_[last.c] = last.pre.capacity
                  /\ data_[last.c] = last.pre.data
     /\ (last.op = "erase_it" /\ i < last.pre.size) =>
          /\ last.err = NoErr
          /\ Elems(last.c) = EraseSeq(PreElems, i)
          /\ size_[last.c] = last.pre.size - 1
          /\ last.ret = iterator(Ptr(data_[last.c], i), last.c)
          /\ capacity_[last.c] = last.pre.capacity
          /\ data_[last.c] = last.pre.data
     /\ (last.op = "erase_it" /\ i = last.pre.size) =>
          /\ last.err = OutOfBound
          /\ View(last.c) = last.pre

\* insert(begin(), v) on a container that never allocated
C20_Witness ==
  /\ Done("insert_it") /\ last.pos.ptr = NullPtr /\ last.pre.capacity = 0
  /\ Elems(1) = <<2>>

\* insert(end(), v) into spare capacity, and in the middle with growth
C20_WitnessEnd ==
  /\ Done("insert_it") /\ last.pos.ptr.off = 2 /\ last.pre.size = 2
  /\ last.pre.capacity = 4 /\ size_[1] = 3
C20_WitnessGrow ==
  /\ Done("insert_it") /\ last.pos.ptr.off = 1 /\ last.pre.size = 2
  /\ last.pre.capacity = 2 /\ capacity_[1] = 4

\* erase(end()) on a container with two elements, and erase(begin() + 1)
C20_WitnessEraseEnd ==
  /\ last.op = "erase_it" /\ last.err = OutOfBound /\ last.pre.size = 2
  /\ last.pos = end(1)
C20_WitnessErase ==
  /\ Done("erase_it") /\ last.pos.ptr.off = 1 /\ last.pre.size = 3 /\ size_[1] = 2

====
